---- MODULE Spec2Model ----
(***************************************************************************)
(* The mobile-money payment engine of altarFunds (src/payments): the       *)
(* PaymentRequest, PaymentCallback and PaymentReversal rows, the handlers  *)
(* of PaymentService / MpesaPaymentService / PaymentSchedulerService, and  *)
(* the giving transaction they settle.                                     *)
(*                                                                         *)
(* The store holds committed rows.  A handler that runs inside             *)
(* transaction.atomic and calls the gateway is a worker with three steps:  *)
(* the read made by the view or serializer before the atomic block, the    *)
(* atomic body up to the gateway's answer (its writes stay private and     *)
(* hold the rows' locks), and the audit write followed by commit or        *)
(* rollback.  A handler that makes no network call is one step.            *)
(***************************************************************************)
EXTENDS Integers, Sequences, FiniteSets, Bags, TLC

VARIABLES
    now,          \* timezone.now(), in minutes
    gt,           \* giving transactions: committed rows, by transaction id
    requests,     \* PaymentRequest rows, committed, in order of commit
    callbacks,    \* PaymentCallback rows, committed (a bag: ids are opaque)
    reversals,    \* PaymentReversal rows, committed
    workers,      \* the in-flight initiate_payment / retry_payment handlers
    nextCheckout, \* the provider's next CheckoutRequestID
    pushes,       \* gateway pushes issued, by transaction (never rolled back)
    completions,  \* committed giving_transaction.mark_completed calls, by request
    failures,     \* committed giving_transaction.mark_failed calls, by request
    refunds,      \* committed giving_transaction.refund calls, by transaction
    queries,      \* status queries issued by the reconciliation sweep
    acks,         \* deliveries the webhook answered with ResultCode 0
    errors,       \* logger.error records, by the handler that failed
    token_requests, \* OAuth token requests sent to the provider
    sender,       \* who sent the last delivery to the webhook
    sweep         \* the requests that the running sweeps selected and have
                  \* not handled yet

vars == <<now, gt, requests, callbacks, reversals, workers, nextCheckout,
          pushes, completions, failures, refunds, queries, acks, errors,
          token_requests, sender, sweep>>

----------------------------------------------------------------------------
(* Bounds of the model *)

MaxRequests == 2    \* PaymentRequest rows
MaxPushes == 5      \* gateway pushes
MaxCallbacks == 2   \* PaymentCallback rows
MaxReversals == 2   \* PaymentReversal rows
MaxQueries == 2     \* status queries of the reconciliation sweep
MaxTime == 30       \* minutes
MaxAmount == 2      \* a transaction's amount
MaxSweepErrors == 2 \* retries that the sweep logged as failed (then not counted)

Txns == {"t1"}
Workers == {"w1", "w2"}
TickSteps == {15, 30}
PaymentMethods == {"mpesa", "cash"}
Receipts == {"MPE1", "MPE2"}
Handlers == {"callback", "reversal", "sweep", "reconcile"}
Senders == {"provider", "other"}

----------------------------------------------------------------------------
(* Program constants *)

NULL == -1
BLANK == 0
NOKEY == -2
NOCODE == -1
BADBODY == -3
DEFAULT_MAX_RETRIES == 3
STALE_MINUTES == 30
retry_delays == <<1, 5, 15>>

\* callback_data of a request that received no callback (null).
NoPayload ==
    [CheckoutRequestID |-> NOKEY, ResultCode |-> NOCODE, MpesaReceiptNumber |-> ""]

Min(a, b) == IF a < b THEN a ELSE b

----------------------------------------------------------------------------
(* PaymentRequest *)

NewPaymentRequest(t) ==
    [txn |-> t, status |-> "pending", checkout_request_id |-> BLANK,
     response_code |-> "", callback_received |-> FALSE,
     callback_data |-> NoPayload,
     processing_started_at |-> NULL, retry_count |-> 0,
     max_retries |-> DEFAULT_MAX_RETRIES, next_retry_at |-> NULL]

mark_processing(pr, t) ==
    [pr EXCEPT !.status = "processing", !.processing_started_at = t]

mark_completed(pr, response) ==
    [pr EXCEPT !.status = "completed",
               !.checkout_request_id = response.CheckoutRequestID,
               !.response_code = response.ResponseCode]

\* mark_failed without the write of status.
mark_failed_mutant(pr, response) ==
    [pr EXCEPT !.response_code = response.ResponseCode]

mark_failed(pr, response) ==
    [pr EXCEPT !.status = "failed", !.response_code = response.ResponseCode]

\* record_callback without its writes.
record_callback_mutant(pr, callback_data) == pr

record_callback(pr, callback_data) ==
    [pr EXCEPT !.callback_received = TRUE, !.callback_data = callback_data]

\* can_retry without the test of status.
can_retry_mutant(pr) == pr.retry_count < pr.max_retries

can_retry(pr) ==
    /\ pr.status \in {"failed", "expired"}
    /\ pr.retry_count < pr.max_retries

\* schedule_retry with the first delay for every retry.
schedule_retry_mutant(pr, t) ==
    [pr EXCEPT !.retry_count = @ + 1,
               !.next_retry_at = t + retry_delays[1],
               !.status = "pending"]

schedule_retry(pr, t) ==
    LET n == pr.retry_count + 1
        delay_minutes == retry_delays[Min(n - 1, Len(retry_delays) - 1) + 1]
    IN  [pr EXCEPT !.retry_count = n,
                   !.next_retry_at = t + delay_minutes,
                   !.status = "pending"]

----------------------------------------------------------------------------
(* The giving transaction (giving/models.py is not part of the sources) *)

NewGivingTransaction(m, a) ==
    [status |-> "pending", payment_method |-> m, amount |-> a,
     receipt |-> "", reason |-> "", refunded |-> 0]

gt_mark_completed(g, receipt) ==
    [g EXCEPT !.status = "completed", !.receipt = receipt]

gt_mark_failed(g, reason) ==
    [g EXCEPT !.status = "failed", !.reason = reason]

gt_refund(g, amount) ==
    [g EXCEPT !.status = "refunded", !.refunded = @ + amount]

----------------------------------------------------------------------------
(* The gateway *)

TOKEN_MINUTES == 55

\* MpesaService(): a new instance holds no token.
MpesaService == [access_token |-> NULL, token_expires_at |-> NULL]

\* MpesaService.get_access_token at time t: the instance's token when it holds
\* one that has not expired, a token request to the provider otherwise.
get_access_token(svc, t) ==
    IF svc.access_token # NULL /\ svc.token_expires_at > t
    THEN [svc |-> svc, requested |-> 0]
    ELSE [svc |-> [access_token |-> 1, token_expires_at |-> t + TOKEN_MINUTES],
          requested |-> 1]

\* The token requests of one push or status query: process_stk_push and
\* check_transaction_status build a new MpesaService for each call.
TokenRequestsOfCall(t) == get_access_token(MpesaService, t).requested


Accepted(c) == [ResponseCode |-> "0", CheckoutRequestID |-> c]
Rejected == [ResponseCode |-> "1", CheckoutRequestID |-> BLANK]
TransportError == [ResponseCode |-> "", CheckoutRequestID |-> BLANK]

\* The provider's answers to a push: accepted or rejected in an HTTP 200
\* response, refused with an HTTP error status, or none (network, timeout,
\* failed token request).
PushAnswers == {"accepted", "rejected", "refused", "transport"}

\* MpesaService.stk_push: the answer of an HTTP 200 response is returned,
\* whatever its ResponseCode; raise_for_status raises on an HTTP error status,
\* and a failed token request, a network error or a timeout raises.
stk_push(answer, c) ==
    CASE answer = "accepted" -> [raised |-> FALSE, data |-> Accepted(c)]
      [] answer = "rejected" -> [raised |-> FALSE, data |-> Rejected]
      [] OTHER -> [raised |-> TRUE, data |-> TransportError]

\* MpesaPaymentService.process_stk_push on the handler's own objects: the
\* request pr and the giving transaction g.  raised: the push raised, and the
\* caller's atomic block rolls back.
process_stk_push(pr, g, answer, c, t) ==
    LET p == mark_processing(pr, t)
        response == stk_push(answer, c)
    IN  CASE response.raised ->
               [pr |-> mark_failed(p, TransportError),
                g |-> g, failed |-> FALSE, raised |-> TRUE]
          [] response.data.ResponseCode = "0" ->
               [pr |-> mark_completed(p, response.data),
                g |-> [g EXCEPT !.status = "processing"],
                failed |-> FALSE, raised |-> FALSE]
          [] OTHER ->
               [pr |-> mark_failed(p, response.data),
                g |-> gt_mark_failed(g, "rejected"),
                failed |-> TRUE, raised |-> FALSE]

----------------------------------------------------------------------------
(* Workers *)

NoRow == [txn |-> "", status |-> "", checkout_request_id |-> BLANK,
          response_code |-> "", callback_received |-> FALSE,
          callback_data |-> NoPayload,
          processing_started_at |-> NULL, retry_count |-> 0,
          max_retries |-> 0, next_retry_at |-> NULL]
NoGt == [status |-> "", payment_method |-> "", amount |-> 0,
         receipt |-> "", reason |-> "", refunded |-> 0]

Idle == [pc |-> "idle", op |-> "", txn |-> "", rid |-> 0, pr |-> NoRow,
         g |-> NoGt, wrote_gt |-> FALSE, failed |-> FALSE]

\* Rows written inside an atomic block stay locked until it ends.
GtLocked(t) ==
    \E w \in Workers :
        workers[w].pc = "pushed" /\ workers[w].txn = t /\ workers[w].wrote_gt
RowLocked(r) ==
    \E w \in Workers : workers[w].pc = "pushed" /\ workers[w].rid = r
Creating ==
    Cardinality({w \in Workers :
                    workers[w].pc = "pushed" /\ workers[w].op = "initiate"})

RECURSIVE SumOver(_, _)
SumOver(f, S) ==
    IF S = {} THEN 0
    ELSE LET x == CHOOSE y \in S : TRUE IN f[x] + SumOver(f, S \ {x})

TotalPushes == SumOver(pushes, Txns)

\* No sweep is running.  pending: the objects that process_pending_payments
\* selected and has not handed to retry_payment yet, by request; stale: the
\* requests that check_transaction_status selected and has not queried yet.
NoSweep == [pending |-> [r \in {} |-> NoRow], stale |-> {}]

\* The except clause of a sweep's loop body abandoning the run.
ContinueAfterError_mutant(s) == NoSweep

\* The except clause of a sweep's loop body: the exception is logged and the
\* loop goes on with the requests that are left.
ContinueAfterError(s) == s

----------------------------------------------------------------------------
Init ==
    /\ now = 0
    /\ gt \in [Txns -> {NewGivingTransaction(m, MaxAmount) : m \in PaymentMethods}]
    /\ requests = <<>>
    /\ callbacks = EmptyBag
    /\ reversals = <<>>
    /\ workers = [w \in Workers |-> Idle]
    /\ nextCheckout = 1
    /\ pushes = [t \in Txns |-> 0]
    /\ completions = [r \in 1..MaxRequests |-> 0]
    /\ failures = [r \in 1..MaxRequests |-> 0]
    /\ refunds = [t \in Txns |-> 0]
    /\ queries = 0
    /\ acks = 0
    /\ errors = [h \in Handlers |-> 0]
    /\ token_requests = 0
    /\ sender = ""
    /\ sweep = NoSweep

\* PaymentRequestCreateSerializer.validate_giving_transaction_id: the
\* transaction is read and must be pending; the handler keeps that object.
InitiateValidate(w, t) ==
    /\ workers[w].pc = "idle"
    /\ gt[t].status = "pending"
    /\ workers' = [workers EXCEPT ![w] =
          [Idle EXCEPT !.pc = "ready", !.op = "initiate", !.txn = t, !.g = gt[t]]]
    /\ UNCHANGED <<sweep, token_requests, sender, now, gt, requests, callbacks, reversals, nextCheckout,
                   pushes, completions, failures, refunds, queries,
                   acks, errors>>

\* PaymentService.initiate_payment with payment_method 'mpesa', up to the
\* gateway's answer: the row is created (the post_save signal moves a pending
\* transaction to processing) and pushed.
InitiateBody(w, answer) ==
    LET wk == workers[w]
        g0 == IF wk.g.status = "pending"
              THEN [wk.g EXCEPT !.status = "processing"] ELSE wk.g
        out == process_stk_push(NewPaymentRequest(wk.txn), g0, answer,
                                nextCheckout, now)
    IN  /\ wk.pc = "ready" /\ wk.op = "initiate"
        /\ ~GtLocked(wk.txn)
        /\ Len(requests) + Creating < MaxRequests
        /\ TotalPushes < MaxPushes
        /\ pushes' = [pushes EXCEPT ![wk.txn] = @ + 1]
        /\ token_requests' = token_requests + TokenRequestsOfCall(now)
        /\ UNCHANGED errors
        /\ nextCheckout' = IF answer = "accepted" THEN nextCheckout + 1
                           ELSE nextCheckout
        /\ workers' = [workers EXCEPT ![w] =
              IF out.raised THEN Idle
              ELSE [wk EXCEPT !.pc = "pushed", !.pr = out.pr, !.g = out.g,
                              !.wrote_gt = TRUE, !.failed = out.failed]]
        /\ UNCHANGED <<sweep, sender, now, gt, requests, callbacks, reversals,
                       completions, failures, refunds, queries, acks>>

\* The end of the atomic block: AuditService.log_user_action, then commit;
\* when the audit write raises, the block rolls back.
Finish(w, audit_ok) ==
    LET wk == workers[w]
        rid == IF wk.op = "initiate" THEN Len(requests) + 1 ELSE wk.rid
    IN  /\ wk.pc = "pushed"
        /\ workers' = [workers EXCEPT ![w] = Idle]
        /\ IF audit_ok
           THEN /\ requests' = IF wk.op = "initiate"
                               THEN Append(requests, wk.pr)
                               ELSE [requests EXCEPT ![rid] = wk.pr]
                /\ gt' = IF wk.wrote_gt THEN [gt EXCEPT ![wk.txn] = wk.g]
                         ELSE gt
                /\ failures' = IF wk.failed
                               THEN [failures EXCEPT ![rid] = @ + 1]
                               ELSE failures
           ELSE UNCHANGED <<requests, gt, failures>>
        /\ UNCHANGED <<sweep, token_requests, sender, now, callbacks, reversals, nextCheckout, pushes,
                       completions, refunds, queries,
                   acks, errors>>

\* PaymentRequestRetryView.post before the atomic block: the row is read and
\* must pass can_retry(); the handler keeps that object.
RetryFetch(w, r) ==
    /\ workers[w].pc = "idle"
    /\ r \in 1..Len(requests)
    /\ can_retry(requests[r])
    /\ workers' = [workers EXCEPT ![w] =
          [Idle EXCEPT !.pc = "ready", !.op = "retry", !.rid = r,
                       !.txn = requests[r].txn, !.pr = requests[r]]]
    /\ UNCHANGED <<sweep, token_requests, sender, now, gt, requests, callbacks, reversals, nextCheckout,
                   pushes, completions, failures, refunds, queries,
                   acks, errors>>

\* The selection of process_pending_payments: status pending, next_retry_at
\* <= now.
PendingDue ==
    {r \in 1..Len(requests) : /\ requests[r].status = "pending"
                              /\ requests[r].next_retry_at # NULL
                              /\ requests[r].next_retry_at <= now}

\* The sweep's loop is handling a request.
Sweeping == \E w \in Workers : workers[w].op = "sweep"

\* PaymentSchedulerService.process_pending_payments, the query: the selected
\* requests are read together with their giving transactions
\* (select_related).  A run that selects nothing returns at once.
ProcessPendingPayments ==
    /\ DOMAIN sweep.pending = {}
    /\ ~Sweeping
    /\ PendingDue # {}
    /\ sweep' = [sweep EXCEPT !.pending =
          [r \in PendingDue |-> [pr |-> requests[r], g |-> gt[requests[r].txn]]]]
    /\ UNCHANGED <<token_requests, sender, now, gt, requests, callbacks,
                   reversals, workers, nextCheckout, pushes, completions,
                   failures, refunds, queries, acks, errors>>

\* PaymentSchedulerService.process_pending_payments, the loop: the next
\* selected object is handed to retry_payment.
SweepFetch(w, r) ==
    /\ workers[w].pc = "idle"
    /\ ~Sweeping
    /\ r \in DOMAIN sweep.pending
    /\ workers' = [workers EXCEPT ![w] =
          [Idle EXCEPT !.pc = "ready", !.op = "sweep", !.rid = r,
                       !.txn = sweep.pending[r].pr.txn,
                       !.pr = sweep.pending[r].pr,
                       !.g = sweep.pending[r].g]]
    /\ sweep' = [sweep EXCEPT !.pending =
          [q \in DOMAIN sweep.pending \ {r} |-> sweep.pending[q]]]
    /\ UNCHANGED <<token_requests, sender, now, gt, requests, callbacks, reversals, nextCheckout,
                   pushes, completions, failures, refunds, queries,
                   acks, errors>>

\* PaymentService.retry_payment up to the gateway's answer.  The request is
\* the caller's object; the giving transaction is the sweep's object or is
\* loaded when first used.  The sweep logs a retry that raised.
RetryBody(w, answer) ==
    LET wk == workers[w]
        g0 == IF wk.op = "sweep" THEN wk.g ELSE gt[wk.txn]
        pr1 == schedule_retry(wk.pr, now)
        out == process_stk_push(pr1, g0, answer, nextCheckout, now)
    IN  /\ wk.pc = "ready" /\ wk.op \in {"retry", "sweep"}
        /\ IF ~can_retry(wk.pr)
           THEN /\ workers' = [workers EXCEPT ![w] = Idle]
                /\ errors' = IF wk.op = "sweep"
                             THEN [errors EXCEPT !["sweep"] =
                                      Min(@ + 1, MaxSweepErrors)]
                             ELSE errors
                /\ sweep' = IF wk.op = "sweep" THEN ContinueAfterError(sweep)
                            ELSE sweep
                /\ UNCHANGED <<pushes, nextCheckout, token_requests>>
           ELSE /\ ~RowLocked(wk.rid)
                /\ UNCHANGED <<errors, sweep>>
                /\ IF g0.payment_method = "mpesa"
                   THEN /\ ~GtLocked(wk.txn)
                        /\ TotalPushes < MaxPushes
                        /\ pushes' = [pushes EXCEPT ![wk.txn] = @ + 1]
                        /\ token_requests' =
                              token_requests + TokenRequestsOfCall(now)
                        /\ nextCheckout' = IF answer = "accepted"
                                           THEN nextCheckout + 1
                                           ELSE nextCheckout
                        /\ workers' = [workers EXCEPT ![w] =
                              IF out.raised THEN Idle
                              ELSE [wk EXCEPT !.pc = "pushed", !.pr = out.pr,
                                              !.g = out.g, !.wrote_gt = TRUE,
                                              !.failed = out.failed]]
                   ELSE /\ workers' = [workers EXCEPT ![w] =
                              [wk EXCEPT !.pc = "pushed", !.pr = pr1]]
                        /\ UNCHANGED <<pushes, nextCheckout, token_requests>>
        /\ UNCHANGED <<sender, now, gt, requests, callbacks, reversals,
                       completions, failures, refunds, queries, acks>>

----------------------------------------------------------------------------
(* Callbacks *)

\* What a delivery to the webhook may carry: the key CheckoutRequestID absent,
\* blank, or an id the provider has issued; a result code 0, nonzero or absent.
Payloads ==
    [CheckoutRequestID : {NOKEY, BLANK} \cup 1..(nextCheckout - 1),
     ResultCode : {0, 1, NOCODE},
     MpesaReceiptNumber : Receipts]

\* Deliveries whose STKCallback body is not an object.
MalformedPayloads ==
    [CheckoutRequestID : {NOKEY, BLANK} \cup 1..(nextCheckout - 1),
     ResultCode : {BADBODY},
     MpesaReceiptNumber : {"MPE1"}]

AllPayloads == Payloads \cup MalformedPayloads

\* PaymentRequest.objects.filter(checkout_request_id=...).first(): the newest
\* row carrying the id, 0 when there is none.
FindRequest(cid) ==
    LET hits == {r \in 1..Len(requests) : requests[r].checkout_request_id = cid}
    IN  IF cid = NOKEY \/ hits = {} THEN 0
        ELSE CHOOSE r \in hits : \A q \in hits : q <= r

NewCallback(p) ==
    [raw_data |-> p, status |-> "received", is_valid |-> FALSE,
     payment_request |-> 0, validation_errors |-> "", processed_data |-> ""]

ResultDesc(p) == IF p.ResultCode = NOCODE THEN "None" ELSE "ResultDesc"

\* mark_processed that also overwrites raw_data.
mark_processed_mutant(cb, processed_data) ==
    [cb EXCEPT !.status = "processed", !.processed_data = processed_data,
               !.raw_data = NoPayload]

\* PaymentCallback.mark_processed.
mark_processed(cb, processed_data) ==
    [cb EXCEPT !.status = "processed", !.processed_data = processed_data]

\* process_payment_callback whose handler is entered after the transaction
\* was marked: the callback is stored as failed and the effect stays.
process_payment_callback_mutant(cb, pr, g) ==
    CASE cb.raw_data.ResultCode = BADBODY ->
           [cb |-> [cb EXCEPT !.status = "failed",
                              !.validation_errors = "AttributeError"],
            pr |-> pr,
            g |-> gt_mark_completed(g, cb.raw_data.MpesaReceiptNumber),
            completed |-> 1, failed |-> 0]
      [] cb.raw_data.ResultCode = 0 ->
           [cb |-> mark_processed(cb, "success"),
            pr |-> record_callback(pr, cb.raw_data),
            g |-> gt_mark_completed(g, cb.raw_data.MpesaReceiptNumber),
            completed |-> 1, failed |-> 0]
      [] OTHER ->
           [cb |-> mark_processed(cb, "failed"),
            pr |-> pr,
            g |-> gt_mark_failed(g, ResultDesc(cb.raw_data)),
            completed |-> 0, failed |-> 1]

\* MpesaPaymentService.process_payment_callback on a linked callback: the
\* callback row, the request and the giving transaction after it.  A body
\* that is not an object raises inside the handler, which stores the callback
\* as failed.
process_payment_callback(cb, pr, g) ==
    CASE cb.raw_data.ResultCode = BADBODY ->
           [cb |-> [cb EXCEPT !.status = "failed",
                              !.validation_errors = "AttributeError"],
            pr |-> pr, g |-> g, completed |-> 0, failed |-> 0]
      [] cb.raw_data.ResultCode = 0 ->
           [cb |-> mark_processed(cb, "success"),
            pr |-> record_callback(pr, cb.raw_data),
            g |-> gt_mark_completed(g, cb.raw_data.MpesaReceiptNumber),
            completed |-> 1, failed |-> 0]
      [] OTHER ->
           [cb |-> mark_processed(cb, "failed"),
            pr |-> pr,
            g |-> gt_mark_failed(g, ResultDesc(cb.raw_data)),
            completed |-> 0, failed |-> 1]

\* The unmatched callback left as it was received.
mark_unmatched_mutant(cb) == cb

\* process_callback on a callback that matches no request.
mark_unmatched(cb) ==
    [cb EXCEPT !.status = "invalid",
               !.validation_errors = "No matching payment request found"]

\* Deliveries handled so far, stored or rolled back.
Deliveries == BagCardinality(callbacks) + errors["callback"]

\* mpesa_callback and PaymentService.process_callback(callback_data, 'mpesa'),
\* one atomic block without a network call; the view answers ResultCode 0.
\* The view has no permission class and reads nothing of the request but its
\* data: src, who sent the delivery, decides nothing.
ProcessCallback(p, src) ==
    LET cb0 == [NewCallback(p) EXCEPT !.is_valid = TRUE]
        r == FindRequest(p.CheckoutRequestID)
    IN  /\ Deliveries < MaxCallbacks
        /\ acks' = acks + 1
        /\ sender' = src
        /\ IF r = 0
           THEN /\ callbacks' = callbacks (+) SetToBag({mark_unmatched(cb0)})
                /\ UNCHANGED <<gt, requests, completions, failures>>
           ELSE LET t == requests[r].txn
                    out == process_payment_callback(
                               [cb0 EXCEPT !.payment_request = r],
                               requests[r], gt[t])
                IN  /\ ~RowLocked(r)
                    /\ ~GtLocked(t)
                    /\ callbacks' = callbacks (+) SetToBag({out.cb})
                    /\ requests' = [requests EXCEPT ![r] = out.pr]
                    /\ gt' = [gt EXCEPT ![t] = out.g]
                    /\ completions' = [completions EXCEPT ![r] = @ + out.completed]
                    /\ failures' = [failures EXCEPT ![r] = @ + out.failed]
        /\ UNCHANGED <<sweep, token_requests, now, reversals, workers, nextCheckout,
                       pushes, refunds, queries, errors>>

\* process_callback when a statement after PaymentCallback.objects.create
\* raises (the lookup or a save fails in the database): the handler logs,
\* raises AltarFundsException, the atomic block rolls back and the view
\* answers ResultCode 1.
ProcessCallbackAborted(p, src) ==
    /\ Deliveries < MaxCallbacks
    /\ sender' = src
    /\ errors' = [errors EXCEPT !["callback"] = @ + 1]
    /\ UNCHANGED <<sweep, token_requests, now, gt, requests, callbacks, reversals,
                   workers, nextCheckout, pushes, completions, failures,
                   refunds, queries, acks>>

Tick(d) ==
    /\ now + d <= MaxTime
    /\ now' = now + d
    /\ UNCHANGED <<sweep, token_requests, sender, gt, requests, callbacks, reversals,
                   workers, nextCheckout,
                   pushes, completions, failures, refunds, queries,
                   acks, errors>>

----------------------------------------------------------------------------
(* Reconciliation *)

QueryAnswers == {"success", "failure", "transport"}

\* The selection of check_transaction_status: status processing,
\* processing_started_at <= now - 30 minutes.
StaleProcessing ==
    {r \in 1..Len(requests) :
        /\ requests[r].status = "processing"
        /\ requests[r].processing_started_at # NULL
        /\ requests[r].processing_started_at <= now - STALE_MINUTES}

\* PaymentSchedulerService.check_transaction_status, the query.  A run that
\* selects nothing returns at once.
SelectStale ==
    /\ sweep.stale = {}
    /\ StaleProcessing # {}
    /\ sweep' = [sweep EXCEPT !.stale = StaleProcessing]
    /\ UNCHANGED <<token_requests, sender, now, gt, requests, callbacks,
                   reversals, workers, nextCheckout, pushes, completions,
                   failures, refunds, queries, acks, errors>>

\* PaymentSchedulerService.check_transaction_status, the loop body: the next
\* selected request and the provider's answer to the status query.  A query
\* that raises is logged.
CheckTransactionStatus(r, answer, receipt) ==
    /\ r \in sweep.stale
    /\ queries < MaxQueries
    /\ queries' = queries + 1
    /\ token_requests' = token_requests + TokenRequestsOfCall(now)
    /\ LET t == requests[r].txn
       IN  CASE answer = "success" ->
                  /\ ~GtLocked(t)
                  /\ gt' = [gt EXCEPT ![t] = gt_mark_completed(@, receipt)]
                  /\ completions' = [completions EXCEPT ![r] = @ + 1]
                  /\ UNCHANGED failures
             [] answer = "failure" ->
                  /\ ~GtLocked(t)
                  /\ gt' = [gt EXCEPT ![t] = gt_mark_failed(@, "ResultDesc")]
                  /\ failures' = [failures EXCEPT ![r] = @ + 1]
                  /\ UNCHANGED completions
             [] OTHER -> UNCHANGED <<gt, completions, failures>>
    /\ errors' = IF answer \in {"success", "failure"} THEN errors
                 ELSE [errors EXCEPT !["reconcile"] = @ + 1]
    /\ sweep' = LET rest == [sweep EXCEPT !.stale = @ \ {r}]
                IN  IF answer \in {"success", "failure"} THEN rest
                    ELSE ContinueAfterError(rest)
    /\ UNCHANGED <<sender, now, requests, callbacks, reversals, workers,
                   nextCheckout, pushes, refunds, acks>>

\* PaymentRequestAdmin: the change form leaves status editable; an
\* administrator puts a request back to processing.
AdminSetProcessing(r) ==
    /\ r \in 1..Len(requests)
    /\ requests[r].status # "processing"
    /\ ~RowLocked(r)
    /\ requests' = [requests EXCEPT ![r].status = "processing"]
    /\ UNCHANGED <<sweep, token_requests, sender, now, gt, callbacks, reversals, workers, nextCheckout,
                   pushes, completions, failures, refunds, queries,
                   acks, errors>>

----------------------------------------------------------------------------
(* Reversals *)

NewPaymentReversal(t, a) ==
    [original_transaction |-> t, amount |-> a, status |-> "pending",
     approved |-> FALSE, reversal_transaction_id |-> "",
     processor_response |-> ""]

reversal_mark_completed(rv) ==
    [rv EXCEPT !.status = "completed", !.reversal_transaction_id = "REV"]

reversal_mark_failed(rv, response) ==
    [rv EXCEPT !.status = "failed", !.processor_response = response]

\* MpesaPaymentService.process_reversal: the reversal is simulated, so it
\* completes and the original transaction is refunded.  When a statement of
\* the body raises (MpesaService() or refund), the reversal is marked failed
\* and the exception is raised again.
process_reversal(rv, g, ok) ==
    IF ok
    THEN [rv |-> reversal_mark_completed(rv), g |-> gt_refund(g, rv.amount),
          raised |-> FALSE]
    ELSE [rv |-> reversal_mark_failed(rv, "error"), g |-> g, raised |-> TRUE]

ReversalOutcomes == {"ok", "process_failed", "audit_failed"}

\* Reversal requests handled so far, stored or rolled back in processing.
ReversalsTried == Len(reversals) + errors["reversal"]

\* PaymentReversalCreateSerializer.create and PaymentService.reverse_payment,
\* one atomic block without a network call.  The post_save signal moves a
\* completed transaction to reversal_pending when the row is created.  An
\* exception in the block (raised again by process_reversal, or by the audit
\* write) becomes AltarFundsException and the block rolls back.
ReversePayment(t, a, outcome) ==
    LET rv == NewPaymentReversal(t, a)
        g0 == IF gt[t].status = "completed"
              THEN [gt[t] EXCEPT !.status = "reversal_pending"] ELSE gt[t]
        mpesa == g0.payment_method = "mpesa"
        out == IF mpesa THEN process_reversal(rv, g0, outcome # "process_failed")
               ELSE [rv |-> rv, g |-> g0, raised |-> FALSE]
    IN  /\ ReversalsTried < MaxReversals
        /\ ~GtLocked(t)
        /\ outcome = "process_failed" => mpesa
        /\ IF ~out.raised /\ outcome # "audit_failed"
           THEN /\ reversals' = Append(reversals, out.rv)
                /\ gt' = [gt EXCEPT ![t] = out.g]
                /\ refunds' = IF mpesa THEN [refunds EXCEPT ![t] = @ + 1]
                              ELSE refunds
           ELSE UNCHANGED <<reversals, gt, refunds>>
        /\ errors' = IF out.raised THEN [errors EXCEPT !["reversal"] = @ + 1]
                     ELSE errors
        /\ UNCHANGED <<sweep, token_requests, sender, now, requests, callbacks, workers, nextCheckout,
                       pushes, completions, failures, queries, acks>>

----------------------------------------------------------------------------
(* Specifications *)

InitiateBy(W, A) ==
    \/ \E w \in W, t \in Txns : InitiateValidate(w, t)
    \/ \E w \in W, a \in A : InitiateBody(w, a)

RetryBy(W, A) ==
    \/ \E w \in W, r \in 1..MaxRequests : RetryFetch(w, r)
    \/ ProcessPendingPayments
    \/ \E w \in W, r \in 1..MaxRequests : SweepFetch(w, r)
    \/ \E w \in W, a \in A : RetryBody(w, a)

EndBy(W, O) == \E w \in W, ok \in O : Finish(w, ok)

CallbackOf(P) == \E p \in P : ProcessCallback(p, "provider")

AbortedCallbackOf(P) == \E p \in P : ProcessCallbackAborted(p, "provider")

\* Deliveries by any sender that can reach the webhook.
CallbackFrom(P, S) == \E p \in P, src \in S : ProcessCallback(p, src)

Reconcile ==
    \/ SelectStale
    \/ \E r \in 1..MaxRequests, a \in QueryAnswers, c \in Receipts :
          CheckTransactionStatus(r, a, c)
    \/ \E r \in 1..MaxRequests : AdminSetProcessing(r)

Reverse ==
    \E t \in Txns, a \in 1..(MaxAmount + 1), o \in ReversalOutcomes :
        ReversePayment(t, a, o)

Clock == \E d \in TickSteps : Tick(d)

\* The whole engine.
Next ==
    \/ InitiateBy(Workers, PushAnswers)
    \/ RetryBy(Workers, PushAnswers)
    \/ EndBy(Workers, BOOLEAN)
    \/ CallbackFrom(AllPayloads, Senders)
    \/ AbortedCallbackOf(AllPayloads)
    \/ Reconcile
    \/ Reverse
    \/ Clock
Spec == Init /\ [][Next]_vars

\* Payment initiation by concurrent handlers and settlement by callbacks.
NextSettle ==
    \/ InitiateBy(Workers, PushAnswers)
    \/ EndBy(Workers, BOOLEAN)
    \/ CallbackOf(Payloads)
SpecSettle == Init /\ [][NextSettle]_vars

\* Payment initiation and retries by concurrent handlers: the retry endpoint
\* and the retry sweep.
NextRetry ==
    \/ InitiateBy(Workers, PushAnswers)
    \/ RetryBy(Workers, PushAnswers)
    \/ EndBy(Workers, BOOLEAN)
    \/ Clock
SpecRetry == Init /\ [][NextRetry]_vars

\* Callbacks that report success with the first receipt for an issued id.
SuccessPayloads ==
    {p \in Payloads : /\ p.CheckoutRequestID >= 1
                      /\ p.ResultCode = 0
                      /\ p.MpesaReceiptNumber = "MPE1"}

\* Reversals of transactions that one handler initiated and a callback settled.
NextReversal ==
    \/ InitiateBy({"w1"}, {"accepted"})
    \/ EndBy({"w1"}, {TRUE})
    \/ CallbackOf(SuccessPayloads)
    \/ Reverse
SpecReversal == Init /\ [][NextReversal]_vars

\* Settlement by callbacks and by the reconciliation sweep of requests that
\* one handler initiated.
NextReconcile ==
    \/ InitiateBy({"w1"}, {"accepted"})
    \/ EndBy({"w1"}, {TRUE})
    \/ CallbackOf(SuccessPayloads)
    \/ Reconcile
    \/ Clock
SpecReconcile == Init /\ [][NextReconcile]_vars

\* Deliveries to the webhook, well-formed or not, stored or aborted, for
\* requests that one handler initiated.
NextCallback ==
    \/ InitiateBy({"w1"}, {"accepted", "rejected"})
    \/ EndBy({"w1"}, {TRUE})
    \/ CallbackFrom(AllPayloads, Senders)
    \/ AbortedCallbackOf(AllPayloads)
SpecCallback == Init /\ [][NextCallback]_vars

\* Accepted pushes and the deliveries that answer them.  A handler that has
\* pushed runs to its commit (weak fairness of Finish); nothing obliges the
\* provider, which was answered ResultCode 0, to deliver again.
NextWindow ==
    \/ InitiateBy(Workers, {"accepted"})
    \/ EndBy(Workers, {TRUE})
    \/ CallbackOf(Payloads)
SpecWindow ==
    Init /\ [][NextWindow]_vars /\ WF_vars(EndBy(Workers, {TRUE}))

\* The two sweeps of the scheduler over requests that concurrent handlers
\* initiated and retried.
NextSweep ==
    \/ InitiateBy(Workers, {"accepted", "rejected"})
    \/ EndBy(Workers, {TRUE})
    \/ RetryBy({"w1"}, {"rejected"})
    \/ Reconcile
    \/ Clock
SpecSweep == Init /\ [][NextSweep]_vars

----------------------------------------------------------------------------
(* Claims *)

Rows == 1..Len(requests)

\* The step delivers a callback, or queries the provider's status.
Delivery == callbacks' # callbacks
StatusQuery == queries' # queries

\* C1: after any sequence of callback deliveries and reconciliation runs, the
\* completion of the underlying transaction (giving_transaction.mark_completed)
\* has been triggered at most once for each PaymentRequest.
C1_CompletionTriggeredOnce ==
    \A r \in 1..MaxRequests : completions[r] <= 1

\* The payload p has a processed callback row linked to request r.
Processed(p, r) ==
    \E cb \in BagToSet(callbacks) :
        cb.raw_data = p /\ cb.status = "processed" /\ cb.payment_request = r

\* The step stores one more callback row carrying the payload p.
Stores(p) ==
    \E cb \in BagToSet(callbacks') :
        cb.raw_data = p /\ CopiesIn(cb, callbacks') > CopiesIn(cb, callbacks)

\* C2: a second delivery of a callback payload that was already processed for
\* the same PaymentRequest changes neither the transaction, nor the request,
\* nor the number of completions and failures applied to the transaction.
C2_DuplicateCallbackIsNoOp ==
    [][\A p \in Payloads :
          (Stores(p) /\ FindRequest(p.CheckoutRequestID) # 0
                     /\ Processed(p, FindRequest(p.CheckoutRequestID)))
          => UNCHANGED <<gt, requests, completions, failures>>]_vars

Active(t) ==
    {r \in Rows : requests[r].txn = t
                  /\ requests[r].status \in {"pending", "processing"}}

\* C3: in every reachable state each transaction has at most one PaymentRequest
\* in status pending or processing.
C3_OneActiveRequestPerTransaction ==
    \A t \in Txns : Cardinality(Active(t)) <= 1

\* C4: every PaymentRequest has retry_count <= max_retries, and once
\* retry_count equals max_retries, can_retry() is false from then on.
C4_RetryBudget ==
    /\ [](\A r \in Rows : requests[r].retry_count <= requests[r].max_retries)
    /\ [][\A r \in Rows :
             (requests[r].retry_count = requests[r].max_retries
              /\ ~can_retry(requests[r]))
             => ~can_retry(requests'[r])]_vars

RECURSIVE ReversedUpTo(_, _)
\* The sum of the amounts of the first n reversal rows that are completed
\* reversals of transaction t.
ReversedUpTo(t, n) ==
    IF n = 0 THEN 0
    ELSE ReversedUpTo(t, n - 1)
         + (IF reversals[n].original_transaction = t
               /\ reversals[n].status = "completed"
            THEN reversals[n].amount ELSE 0)

CompletedReversals(t) == ReversedUpTo(t, Len(reversals))

\* C5: in every reachable state the completed reversals of a transaction sum
\* to at most the transaction's original amount.
C5_ReversalsWithinAmount ==
    \A t \in Txns : CompletedReversals(t) <= gt[t].amount

\* C6: no reversal is stored for an amount above the transaction's original
\* amount minus its completed reversals, and such a request refunds nothing.
C6_ExcessReversalRejected ==
    [][Len(reversals') = Len(reversals) + 1 =>
          LET rv == reversals'[Len(reversals')]
              t == rv.original_transaction
          IN  rv.amount <= gt[t].amount - CompletedReversals(t)]_vars

\* C7: a PaymentRequest whose push the provider accepted (ResponseCode '0')
\* holds the correlation id and is in status processing until a callback or a
\* status query has reported the outcome.
C7_AcceptedStaysProcessing ==
    \A r \in Rows :
        (requests[r].response_code = "0"
         /\ completions[r] = 0 /\ failures[r] = 0)
        => (requests[r].status = "processing"
            /\ requests[r].checkout_request_id # BLANK)

\* C8: a PaymentRequest enters status completed only in a step that applies a
\* successful callback or a successful status query to it.
C8_CompletedOnlyBySettlement ==
    [][\A r \in 1..Len(requests') :
          (requests'[r].status = "completed"
           /\ (r > Len(requests) \/ requests[r].status # "completed"))
          => ((Delivery \/ StatusQuery)
              /\ completions'[r] = completions[r] + 1)]_vars

\* The step applies to request r a callback with a nonzero result code.
FailureCallback(r) ==
    \E p \in Payloads :
        Stores(p) /\ p.ResultCode = 1 /\ FindRequest(p.CheckoutRequestID) = r

\* The step applies to request r a status query that reports failure.
FailedQuery(r) == StatusQuery /\ failures'[r] = failures[r] + 1

\* C9: after a callback with a nonzero result code, or a status query that
\* reports failure, was applied for a PaymentRequest, that request is in
\* status failed and the underlying transaction is failed.
C9_FailureReportFailsRequest ==
    [][\A r \in Rows :
          (FailureCallback(r) \/ FailedQuery(r))
          => (requests'[r].status = "failed"
              /\ gt'[requests'[r].txn].status = "failed")]_vars

\* The step commits a new PaymentRequest whose push the provider rejected.
CommitsRejected ==
    /\ Len(requests') = Len(requests) + 1
    /\ requests'[Len(requests')].response_code = "1"

\* C10: when the provider rejects the push of a new PaymentRequest, the request
\* is stored in status failed with retry_count 0, the underlying transaction
\* is marked failed with the rejection reason, and can_retry() is true while
\* max_retries > 0.
C10_RejectedPushFailsAtOnce ==
    [][CommitsRejected =>
          LET r == Len(requests')
              new == requests'[r]
          IN  /\ new.status = "failed"
              /\ new.retry_count = 0
              /\ gt'[new.txn].status = "failed"
              /\ gt'[new.txn].reason = "rejected"
              /\ failures'[r] = failures[r] + 1
              /\ (new.max_retries > 0 => can_retry(new))]_vars

C10_Witness ==
    \E r \in Rows :
        /\ requests[r].response_code = "1"
        /\ requests[r].status = "failed"
        /\ requests[r].retry_count = 0
        /\ requests[r].max_retries > 0
        /\ gt[requests[r].txn].status = "failed"
        /\ gt[requests[r].txn].reason = "rejected"

\* The handler w runs retry_payment in this step on a request that a run of
\* the retry sweep selected.
SweepRuns(w) ==
    /\ workers[w].op = "sweep"
    /\ workers[w].pc = "ready"
    /\ workers'[w] # workers[w]

\* C11: when the retry sweep handles a request it selected (status pending,
\* next_retry_at <= now), the gateway push is issued for that request.
C11_SweepReinitiatesPush ==
    [][\A w \in Workers :
          (SweepRuns(w) /\ requests[workers[w].rid].status = "pending")
          => pushes'[workers[w].txn] = pushes[workers[w].txn] + 1]_vars

\* C12: a run of the retry sweep acts on a request only after an atomic
\* conditional update took the request out of status pending, so that of two
\* runs that selected the same request at most one acts.
C12_SweepClaimsBeforeActing ==
    [][\A w \in Workers :
          SweepRuns(w) => requests[workers[w].rid].status # "pending"]_vars

\* C13: when the reconciliation sweep queries a stale processing request and
\* the provider reports success, the request leaves status processing, so that
\* later runs do not apply the completion again.
C13_ReconciledLeavesProcessing ==
    [][\A r \in Rows :
          (StatusQuery /\ completions'[r] = completions[r] + 1)
          => requests'[r].status # "processing"]_vars

\* C14: every delivery for which the PaymentCallback row was written has its
\* row in the store, also when the processing after the write aborted.
C14_CallbackRowSurvivesAbort ==
    BagCardinality(callbacks) = Deliveries

\* The callback rows that the step adds to the store.
NewRows ==
    {cb \in BagToSet(callbacks') :
        CopiesIn(cb, callbacks') > CopiesIn(cb, callbacks)}

\* C15: a callback that matches no PaymentRequest is stored with status
\* invalid and an error text, changes no PaymentRequest and no transaction,
\* and is acknowledged to the provider with ResultCode 0.
C15_UnmatchedCallbackInvalid ==
    [][\A p \in AllPayloads :
          (Stores(p) /\ FindRequest(p.CheckoutRequestID) = 0)
          => /\ \A cb \in NewRows : /\ cb.status = "invalid"
                                    /\ cb.validation_errors # ""
                                    /\ cb.payment_request = 0
             /\ UNCHANGED <<gt, requests, completions, failures>>
             /\ acks' = acks + 1]_vars

C15_Witness ==
    /\ Len(requests) >= 1
    /\ acks >= 1
    /\ \E cb \in BagToSet(callbacks) :
          /\ cb.status = "invalid"
          /\ cb.validation_errors # ""
          /\ cb.raw_data.CheckoutRequestID \in {NOKEY, BLANK}

\* C16: a callback without a result code, or whose body is not an object, is
\* marked invalid and neither completes nor fails the transaction.
C16_MalformedCallbackNoEffect ==
    [][\A p \in AllPayloads :
          (Stores(p) /\ p.ResultCode \in {NOCODE, BADBODY})
          => /\ \A cb \in NewRows : cb.status = "invalid"
             /\ UNCHANGED <<gt, completions, failures>>]_vars

\* A processed callback that carried a result code and had the given outcome
\* is stored for request r.
Settled(r, outcome) ==
    \E cb \in BagToSet(callbacks) :
        /\ cb.payment_request = r
        /\ cb.status = "processed"
        /\ cb.raw_data.ResultCode \in {0, 1}
        /\ cb.processed_data = outcome

\* C17: once a callback has completed or failed the transaction of a
\* PaymentRequest, a later callback for the same request with the opposite
\* outcome leaves the transaction's status as it is.
C17_ConflictingCallbackKeepsStatus ==
    [][\A p \in Payloads :
          LET r == FindRequest(p.CheckoutRequestID)
          IN  (/\ Stores(p)
               /\ r # 0
               /\ \/ p.ResultCode = 0 /\ Settled(r, "failed")
                  \/ p.ResultCode = 1 /\ Settled(r, "success"))
              => gt'[requests[r].txn].status = gt[requests[r].txn].status]_vars

\* C18: after a callback with result code 0 that matches a PaymentRequest, the
\* transaction is completed with the receipt of the payload, the request has
\* callback_received true and holds the callback data, and the callback is
\* processed.
C18_SuccessCallbackEffects ==
    [][\A p \in Payloads :
          LET r == FindRequest(p.CheckoutRequestID)
          IN  (Stores(p) /\ r # 0 /\ p.ResultCode = 0)
              => /\ gt'[requests[r].txn].status = "completed"
                 /\ gt'[requests[r].txn].receipt = p.MpesaReceiptNumber
                 /\ requests'[r].callback_received
                 /\ requests'[r].callback_data = p
                 /\ \A cb \in NewRows : /\ cb.status = "processed"
                                        /\ cb.payment_request = r]_vars

C18_Witness ==
    \E r \in Rows :
        /\ requests[r].callback_received
        /\ requests[r].callback_data.ResultCode = 0
        /\ gt[requests[r].txn].status = "completed"
        /\ gt[requests[r].txn].receipt
              = requests[r].callback_data.MpesaReceiptNumber
        /\ Settled(r, "success")

\* C19: every PaymentReversal in status completed was approved.
C19_CompletedReversalApproved ==
    \A i \in 1..Len(reversals) :
        reversals[i].status = "completed" => reversals[i].approved

\* C20: every reversal whose processing failed is in the store in status
\* failed with the failure reason in processor_response.
C20_FailedReversalKept ==
    Cardinality({i \in 1..Len(reversals) :
                    /\ reversals[i].status = "failed"
                    /\ reversals[i].processor_response # ""})
        = errors["reversal"]

\* The handler w issues a push in this step and the push raises: the handler's
\* atomic block is rolled back.
PushRaised(w) ==
    /\ workers[w].pc = "ready"
    /\ workers'[w].pc = "idle"
    /\ pushes' # pushes

\* C21: after a push failed with a transport error, the transaction has a
\* request stored as retryable (pending or failed) with a next_retry_at.
C21_TransportErrorEntersRetryPath ==
    [][\A w \in Workers :
          PushRaised(w)
          => \E r \in 1..Len(requests') :
                /\ requests'[r].txn = workers[w].txn
                /\ requests'[r].status \in {"pending", "failed"}
                /\ requests'[r].next_retry_at # NULL
                /\ requests'[r].next_retry_at >= now]_vars

\* C22: when the push of a retry raises, the stored retry_count of the request
\* is one higher than before the retry.
C22_RetryBudgetConsumedAtScheduling ==
    [][\A w \in Workers :
          (PushRaised(w) /\ workers[w].op \in {"retry", "sweep"})
          => requests'[workers[w].rid].retry_count
                = requests[workers[w].rid].retry_count + 1]_vars

MaxRetryCount == 5

\* The backoff schedule: 1 minute before the first retry, 5 before the second,
\* 15 before every later one.
Delay(k) == IF k = 1 THEN 1 ELSE IF k = 2 THEN 5 ELSE 15

\* The handler w schedules a retry in this step.
Schedules(w) ==
    /\ workers[w].pc = "ready"
    /\ workers[w].op \in {"retry", "sweep"}
    /\ workers'[w].pc = "pushed"

\* C23: schedule_retry on a request with retry_count k - 1 sets retry_count to
\* k, next_retry_at to the scheduling time plus Delay(k) and status to pending,
\* and leaves every other field; the request a handler holds after scheduling
\* a retry carries that retry_count and next_retry_at.
C23_BackoffSchedule ==
    [][/\ \A r \in Rows, k \in 1..MaxRetryCount :
             LET pr == [requests[r] EXCEPT !.retry_count = k - 1]
             IN  schedule_retry(pr, now)
                    = [pr EXCEPT !.retry_count = k,
                                 !.next_retry_at = now + Delay(k),
                                 !.status = "pending"]
       /\ \A w \in Workers :
             Schedules(w)
             => /\ workers'[w].pr.retry_count = workers[w].pr.retry_count + 1
                /\ workers'[w].pr.next_retry_at
                      = now + Delay(workers'[w].pr.retry_count)]_vars

C23_Witness ==
    \E r \in Rows :
        /\ requests[r].retry_count = 3
        /\ requests[r].next_retry_at = now + 15

\* A request that may be retried: failed or expired, with retries left.
Retryable(pr) ==
    /\ pr.status \in {"failed", "expired"}
    /\ pr.retry_count < pr.max_retries

C25_RawDataNeverMutated ==
    [][/\ \A cb \in BagToSet(callbacks) :
             CopiesIn(cb, callbacks') >= CopiesIn(cb, callbacks)
       /\ \A cb \in NewRows : cb.raw_data \in AllPayloads
       /\ \A p \in AllPayloads :
             LET cb0 == NewCallback(p)
             IN  /\ mark_unmatched(cb0).raw_data = p
                 /\ mark_processed(cb0, "success").raw_data = p
                 /\ \A r \in Rows :
                       process_payment_callback(
                           cb0, requests[r], gt[requests[r].txn]).cb.raw_data
                          = p]_vars

C25_Witness ==
    /\ \E cb \in BagToSet(callbacks) :
          cb.status = "processed" /\ cb.raw_data.ResultCode = 0
    /\ \E cb \in BagToSet(callbacks) :
          cb.status = "failed" /\ cb.raw_data.ResultCode = BADBODY

\* The step ends the atomic block of a retry.
RetryEnds ==
    \E w \in Workers :
        /\ workers[w].op \in {"retry", "sweep"}
        /\ workers[w].pc = "pushed"
        /\ workers'[w].pc = "idle"

\* C26: a PaymentRequest in status completed or cancelled keeps its status in
\* every step, and a request in status failed or expired changes status only
\* in a retry taken while its retry_count < max_retries.
C26_TerminalStatusesStay ==
    [][\A r \in Rows :
          /\ requests[r].status \in {"completed", "cancelled"}
             => requests'[r].status = requests[r].status
          /\ (/\ requests[r].status \in {"failed", "expired"}
              /\ requests'[r].status # requests[r].status)
             => /\ RetryEnds
                /\ requests[r].retry_count < requests[r].max_retries]_vars

\* C27: while a token obtained earlier has not expired, a push or a status
\* query sends no further token request to the provider.
C27_TokenShared ==
    [][(token_requests >= 1 /\ now < TOKEN_MINUTES)
          => token_requests' = token_requests]_vars

\* C28: whenever a handler issues a push, stk_push returns the provider's
\* answer with its code when the provider accepted or refused the payment,
\* and raises only when the provider gave no answer.
C28_RejectionIsReturned ==
    [][pushes' # pushes
          => \A a \in PushAnswers, c \in 1..nextCheckout :
                /\ stk_push(a, c).raised => a = "transport"
                /\ a = "accepted"
                      => stk_push(a, c).data = Accepted(c)
                /\ a \in {"rejected", "refused"}
                      => stk_push(a, c).data.ResponseCode
                            \notin {"", "0"}]_vars

\* C29: a delivery that someone other than the provider sent changes no
\* transaction and no PaymentRequest.
C29_ForeignCallbackNoEffect ==
    [][(Delivery /\ sender' # "provider")
          => UNCHANGED <<gt, requests, completions, failures>>]_vars

\* C30: a PaymentReversal is stored only for a transaction that is in status
\* completed when the reversal is requested.
C30_ReversalOnlyOfCompleted ==
    [][Len(reversals') = Len(reversals) + 1
          => gt[reversals'[Len(reversals')].original_transaction].status
                = "completed"]_vars

\* The retry handler w issues its push in this step.
RetryPushes(w) ==
    /\ workers[w].op \in {"retry", "sweep"}
    /\ workers[w].pc = "ready"
    /\ pushes' # pushes

\* The retry handler w commits in this step.
RetryCommits(w) ==
    /\ workers[w].op \in {"retry", "sweep"}
    /\ workers[w].pc = "pushed"
    /\ workers'[w].pc = "idle"
    /\ requests' # requests

\* C31: of the retry_payment calls that hold a copy of the same request, a
\* call issues a push only while the stored request passes can_retry(), and
\* each commit of a retry leaves the stored retry_count one higher than it was.
C31_ConcurrentRetriesOrdered ==
    [][\A w \in Workers :
          /\ RetryPushes(w) => can_retry(requests[workers[w].rid])
          /\ RetryCommits(w)
             => requests'[workers[w].rid].retry_count
                   = requests[workers[w].rid].retry_count + 1]_vars

\* C33: when a handler whose push the provider accepted ends, committed or
\* rolled back, a stored PaymentRequest carries the CheckoutRequestID that
\* the provider returned.
C33_AcceptedPushHasStoredRequest ==
    [][\A w \in Workers :
          (/\ workers[w].pc = "pushed"
           /\ workers[w].pr.checkout_request_id >= 1
           /\ workers'[w].pc = "idle")
          => \E r \in 1..Len(requests') :
                requests'[r].checkout_request_id
                   = workers[w].pr.checkout_request_id]_vars

\* C35: a delivery whose CheckoutRequestID is empty is linked to no
\* PaymentRequest and changes no request and no transaction.
C35_BlankIdMatchesNothing ==
    [][\A p \in AllPayloads :
          (Stores(p) /\ p.CheckoutRequestID = BLANK)
          => /\ \A cb \in NewRows : cb.payment_request = 0
             /\ UNCHANGED <<gt, requests, completions, failures>>]_vars

\* C36: no stored PaymentRequest is pending with a retry counted and a
\* next_retry_at set: a retry that was committed has issued its push, which
\* took the request out of pending.
C36_CommittedRetryHasPushed ==
    \A r \in Rows :
        ~(/\ requests[r].status = "pending"
          /\ requests[r].retry_count >= 1
          /\ requests[r].next_retry_at # NULL)

\* C37: every stored PaymentCallback in status invalid has is_valid false.
C37_InvalidIsNotValid ==
    \A cb \in BagToSet(callbacks) : cb.status = "invalid" => ~cb.is_valid

\* A callback reporting the outcome of push c was stored as unmatched while
\* the handler that issued the push has not committed.
EarlyCallback(c) ==
    /\ \E w \in Workers :
          workers[w].pc = "pushed" /\ workers[w].pr.checkout_request_id = c
    /\ \E cb \in BagToSet(callbacks) :
          /\ cb.raw_data.CheckoutRequestID = c
          /\ cb.raw_data.ResultCode \in {0, 1}
          /\ cb.status = "invalid"

\* The outcome of push c was applied to the transaction of its request.
OutcomeApplied(c) ==
    \E r \in Rows :
        /\ requests[r].checkout_request_id = c
        /\ completions[r] + failures[r] >= 1

\* C32: when the callback of an accepted push was delivered before the
\* initiating handler committed, the outcome is eventually applied to the
\* transaction of the request.
C32_EarlyCallbackApplied ==
    \A c \in 1..MaxRequests : EarlyCallback(c) ~> OutcomeApplied(c)

\* The step is a delivery whose processing raised out of process_callback.
DeliveryAborted == errors'["callback"] # errors["callback"]

Unhandled == [pending |-> DOMAIN sweep.pending, stale |-> sweep.stale]

\* The step is the failure of one request inside a sweep: retry_payment
\* raised in the retry sweep, or the status query raised in the
\* reconciliation sweep.
ItemFailed ==
    \/ \E w \in Workers : /\ workers[w].op = "sweep"
                          /\ workers[w].pc = "ready"
                          /\ workers'[w].pc = "idle"
    \/ errors'["reconcile"] # errors["reconcile"]

\* The step hands request r to retry_payment, or queries its status.
Handles(r) ==
    \/ \E w \in Workers : /\ workers[w].pc = "idle"
                          /\ workers'[w].pc = "ready"
                          /\ workers'[w].op = "sweep"
                          /\ workers'[w].rid = r
    \/ StatusQuery /\ r \in sweep.stale /\ r \notin sweep'.stale

\* C38: the failure of one request inside a sweep is logged and removes no
\* other request from what the run has still to handle; a selected request
\* leaves a run only by being handled, one request in a step.
C38_SweepFailureIsolated ==
    [][/\ ItemFailed
          => /\ DOMAIN sweep'.pending = DOMAIN sweep.pending
             /\ sweep.stale \ sweep'.stale \subseteq
                   {r \in sweep.stale : Handles(r)}
             /\ \/ errors'["sweep"] >= 1
                \/ errors'["reconcile"] = errors["reconcile"] + 1
       /\ \A r \in (DOMAIN sweep.pending) \ (DOMAIN sweep'.pending) :
             /\ Handles(r)
             /\ DOMAIN sweep'.pending = (DOMAIN sweep.pending) \ {r}
       /\ \A r \in sweep.stale \ sweep'.stale :
             /\ Handles(r)
             /\ sweep'.stale = sweep.stale \ {r}]_vars

\* A status query of the reconciliation sweep failed and the run still holds
\* a request to query.
C38_Witness ==
    /\ errors["reconcile"] = 1
    /\ queries = 1
    /\ sweep.stale # {}

\* A retry of the retry sweep failed and the run still holds a request to
\* hand to retry_payment.
RetrySweepGoesOn ==
    /\ errors["sweep"] = 1
    /\ DOMAIN sweep.pending # {}
    /\ \A w \in Workers : workers[w].pc = "idle"

====
